---- MODULE Spec2Model ----
(***************************************************************************)
(* Model of scripts/generate_feed.py: the feed merger                      *)
(* merge_episode_into_feed and its caller main.                            *)
(*                                                                         *)
(* A file is a sequence of tokens (declaration, tags, characters, CDATA    *)
(* delimiters).  A character token stands for one newline, one run of      *)
(* indentation, one ampersand, or one run of ordinary characters.  Parsing,*)
(* the regular-expression repair, the element-tree surgery, the namespace  *)
(* prefix assignment of ElementTree, the minidom pretty printer and the    *)
(* blank-line filter are computed on these tokens as the code and the      *)
(* libraries it calls compute them on bytes.                               *)
(*                                                                         *)
(* Not modelled: comments and processing instructions, a default           *)
(* namespace (xmlns="..."), namespaced attributes, text encodings.         *)
(***************************************************************************)
EXTENDS Integers, Sequences, FiniteSets, TLC

\* ------------------------------------------------------------------ tokens

NL == "\n"
\* the indentation that opens a line at each depth, two spaces a level
Indentations == <<"  ", "    ", "      ", "        ", "          ", "            ">>

\* k: kind, p: namespace prefix of a tag ("" for none), n: local name or the
\* characters, a: attributes of a start tag, e: TRUE when the characters are
\* written entity-escaped (&amp; &lt; &gt;)
Tok(k, p, n, a, e) == [k |-> k, p |-> p, n |-> n, a |-> a, e |-> e]
Attr(p, n, v) == [p |-> p, n |-> n, v |-> v]

XmlDecl == Tok("decl", "", "xml", {}, FALSE)
Open(p, n, a) == Tok("open", p, n, a, FALSE)
Close(p, n) == Tok("close", p, n, {}, FALSE)
EmptyTag(p, n, a) == Tok("empty", p, n, a, FALSE)
Ch(c) == Tok("char", "", c, {}, FALSE)
CdataOpen == Tok("cdo", "", "<![CDATA[", {}, FALSE)
CdataClose == Tok("cdc", "", "]]>", {}, FALSE)
Escaped(t) == [t EXCEPT !.e = TRUE]
Unescaped(t) == [t EXCEPT !.e = FALSE]

IsWhitespace(t) ==
    t.k = "char" /\ ~t.e /\ (t.n = NL \/ \E d \in DOMAIN Indentations : t.n = Indentations[d])

RECURSIVE Concat(_)
Concat(ss) == IF ss = <<>> THEN <<>> ELSE Head(ss) \o Concat(Tail(ss))

\* ------------------------------------------------------- ElementTree nodes

\* tag.ns is the namespace URI ("" for an unqualified tag): ElementTree keeps
\* "{uri}local" and forgets the prefix the source used
Tag(ns, n) == [ns |-> ns, n |-> n]
Element(tag, attrib, text, kids) ==
    [tag |-> tag, attrib |-> attrib, text |-> text, tail |-> <<>>, kids |-> kids]

\* ------------------------------------------------------------------ parser

\* The namespace bindings in force: a set of <<prefix, uri>>, a declaration on
\* the element overriding the inherited binding of its prefix
Declared(a) == {<<x.n, x.v>> : x \in {y \in a : y.p = "xmlns"}}
Scope(inherited, a) ==
    {b \in inherited : \A d \in Declared(a) : d[1] # b[1]} \cup Declared(a)
Bound(scope, p) == p = "" \/ \E b \in scope : b[1] = p
UriOf(scope, p) == IF p = "" THEN "" ELSE (CHOOSE b \in scope : b[1] = p)[2]

ParseInit == [err |-> FALSE, stack |-> <<>>, root |-> <<>>, cdata |-> FALSE, n |-> 0]

\* character data goes to the text of the open element until it has a child,
\* and to the tail of its last child afterwards
AddText(st, t) ==
    LET d == Len(st.stack)
        el == st.stack[d].el
        k == Len(el.kids)
    IN IF k = 0
       THEN [st EXCEPT !.stack[d].el.text = Append(@, t)]
       ELSE [st EXCEPT !.stack[d].el.kids[k].tail = Append(@, t)]

\* a finished element becomes the last child of its parent, or the root
Attach(st, el) ==
    LET d == Len(st.stack)
    IN IF d = 0
       THEN [st EXCEPT !.root = <<el>>]
       ELSE [st EXCEPT !.stack[d].el.kids = Append(@, el)]

StartElement(st, t) ==
    LET inherited == IF st.stack = <<>> THEN {} ELSE st.stack[Len(st.stack)].scope
        scope == Scope(inherited, t.a)
    IN IF (st.stack = <<>> /\ st.root # <<>>) \/ ~Bound(scope, t.p)
       THEN [st EXCEPT !.err = TRUE]
       ELSE [st EXCEPT !.stack = Append(@,
                [p |-> t.p, n |-> t.n, scope |-> scope,
                 el |-> Element(Tag(UriOf(scope, t.p), t.n),
                                {x \in t.a : x.p # "xmlns"}, <<>>, <<>>)])]

EndElement(st, t) ==
    LET d == Len(st.stack)
    IN IF d = 0 \/ st.stack[d].p # t.p \/ st.stack[d].n # t.n
       THEN [st EXCEPT !.err = TRUE]
       ELSE Attach([st EXCEPT !.stack = SubSeq(@, 1, d - 1)], st.stack[d].el)

ParseStep(st0, t) ==
    LET st == [st0 EXCEPT !.n = @ + 1]
    IN IF st0.err THEN st0
       ELSE IF st0.cdata
       THEN IF t.k = "cdc" THEN [st EXCEPT !.cdata = FALSE] ELSE AddText(st, t)
       ELSE IF t.e
       THEN IF st0.stack = <<>> THEN [st EXCEPT !.err = TRUE]
            ELSE AddText(st, Unescaped(t))
       ELSE IF t.k = "decl"
       THEN IF st0.n = 0 THEN st ELSE [st EXCEPT !.err = TRUE]
       ELSE IF t.k = "open" THEN StartElement(st, t)
       ELSE IF t.k = "empty"
       THEN LET s2 == StartElement(st, t)
            IN IF s2.err THEN s2 ELSE EndElement(s2, t)
       ELSE IF t.k = "close" THEN EndElement(st, t)
       ELSE IF st0.stack = <<>>
       THEN IF IsWhitespace(t) THEN st ELSE [st EXCEPT !.err = TRUE]
       ELSE IF t.k = "cdo" THEN [st EXCEPT !.cdata = TRUE]
       ELSE IF t.k = "cdc" \/ (t.k = "char" /\ t.n = "&")
       THEN [st EXCEPT !.err = TRUE]
       ELSE AddText(st, t)

\* the tokens are fed to the parser in order, four to a round
RECURSIVE ParseFrom(_, _, _)
ParseFrom(st, toks, i) ==
    IF i > Len(toks) \/ st.err THEN st
    ELSE IF i + 3 <= Len(toks)
    THEN ParseFrom(ParseStep(ParseStep(ParseStep(ParseStep(st, toks[i]), toks[i + 1]),
                                       toks[i + 2]), toks[i + 3]), toks, i + 4)
    ELSE ParseFrom(ParseStep(st, toks[i]), toks, i + 1)

NoElement == Element(Tag("", ""), {}, <<>>, <<>>)

\* the document is well-formed when the input ends outside every element and
\* every CDATA section, with a root read
Parsed(st) ==
    IF ~st.err /\ st.stack = <<>> /\ st.root # <<>> /\ ~st.cdata
    THEN [ok |-> TRUE, root |-> st.root[1]]
    ELSE [ok |-> FALSE, root |-> NoElement]

\* ET.parse / ET.fromstring: ok = FALSE stands for ET.ParseError
Parse(toks) == Parsed(ParseFrom(ParseInit, toks, 1))

\* ------------------------------------------------------ ElementTree queries

IsTag(el, name) == el.tag = Tag("", name)

\* Element.find(name): the index of the first child so tagged, 0 for None
RECURSIVE FindFrom(_, _, _)
FindFrom(kids, name, i) ==
    IF i > Len(kids) THEN 0
    ELSE IF IsTag(kids[i], name) THEN i
    ELSE FindFrom(kids, name, i + 1)
Find(el, name) == FindFrom(el.kids, name, 1)

\* Element.findall(name): the children so tagged, in order
FindAll(el, name) == SelectSeq(el.kids, LAMBDA k : IsTag(k, name))

\* Element.findall(".//name"): every descendant so tagged, in document order;
\* the element itself is not among them
RECURSIVE FindAllDeep(_, _), FindAllDeepIn(_, _, _)
FindAllDeepIn(kids, name, i) ==
    IF i > Len(kids) THEN <<>>
    ELSE (IF IsTag(kids[i], name) THEN <<kids[i]>> ELSE <<>>)
         \o FindAllDeep(kids[i], name) \o FindAllDeepIn(kids, name, i + 1)
FindAllDeep(el, name) == FindAllDeepIn(el.kids, name, 1)

\* item.find(name) and its .text, <<>> when the child is absent or its text
\* is None or empty (the code tests "x is not None and x.text")
ChildText(item, name) ==
    LET i == Find(item, name) IN IF i = 0 THEN <<>> ELSE item.kids[i].text

\* ET.SubElement(parent, name).text = text
SubElement(parent, name, text) ==
    [parent EXCEPT !.kids = Append(@, Element(Tag("", name), {}, text, <<>>))]

\* ------------------------------------------------------------- feed loader

SITE_TITLE == <<Ch("TechNewsDaily")>>
SITE_LINK == <<Ch("/")>>
SITE_DESC == <<Ch("Tech news and summaries - generated RSS feed")>>

NAMESPACES ==
    { <<"itunes", "http://www.itunes.com/dtds/podcast-1.0.dtd">>,
      <<"content", "http://purl.org/rss/1.0/modules/content/">>,
      <<"atom", "http://www.w3.org/2005/Atom">>,
      <<"dc", "http://purl.org/dc/elements/1.1/">>,
      <<"media", "http://search.yahoo.com/mrss/">> }

\* ET.register_namespace(prefix, uri): the process-wide map loses every entry
\* with that prefix or that uri and gains <<prefix, uri>>
RegisterNamespace(registry, b) ==
    {r \in registry : r[1] # b[1] /\ r[2] # b[2]} \cup {b}

RECURSIVE RegisterAll(_, _)
RegisterAll(registry, bs) ==
    IF bs = {} THEN registry
    ELSE LET b == CHOOSE x \in bs : TRUE
         IN RegisterAll(RegisterNamespace(registry, b), bs \ {b})

\* the feed skeleton built when the feed file does not exist; attrib=NAMESPACES
\* makes plain attributes named itunes, content, ..., not xmlns declarations
NewFeed ==
    LET channel == SubElement(SubElement(SubElement(SubElement(
                       Element(Tag("", "channel"), {}, <<>>, <<>>),
                       "title", SITE_TITLE), "link", SITE_LINK),
                       "description", SITE_DESC), "language", <<Ch("en-us")>>)
    IN Element(Tag("", "rss"),
               {Attr("", "version", "2.0")} \cup {Attr("", b[1], b[2]) : b \in NAMESPACES},
               <<>>, <<channel>>)

\* the loop over rss.attrib: the keys that start with "xmlns:"
RootNamespaces(rss) == {<<x.n, x.v>> : x \in {y \in rss.attrib : y.p = "xmlns"}}

\* a variant that stamps the build date only when it creates the element
UpdateBuildDateOnce(channel, now) ==
    IF Find(channel, "lastBuildDate") = 0
    THEN SubElement(channel, "lastBuildDate", now)
    ELSE channel

\* channel.find("lastBuildDate"), created as the last child when missing, and
\* its text set to the build time
UpdateBuildDate(channel, now) ==
    LET i == Find(channel, "lastBuildDate")
    IN IF i = 0
       THEN SubElement(channel, "lastBuildDate", now)
       ELSE [channel EXCEPT !.kids[i].text = now]

\* ---------------------------------------------------------- episode loader

IsLinkOpen(t) == t.k = "open" /\ ~t.e /\ t.p = "" /\ t.n = "link" /\ t.a = {}
IsLinkClose(t) == t.k = "close" /\ ~t.e /\ t.p = "" /\ t.n = "link"
\* a token whose characters include "&": the ampersand itself, or anything
\* written as an entity reference
HasAmp(t) == t.e \/ (t.k = "char" /\ t.n = "&")

\* the least of a set of indices, 0 when there is none
Least(S) == IF S = {} THEN 0 ELSE CHOOSE j \in S : \A k \in S : j <= k

\* _wrap_link_cdata: the match is left alone when its inner text holds a
\* CDATA marker, and has its inner text wrapped in CDATA otherwise
WrapLinkCdata(open_tag, inner, close_tag) ==
    IF \E j \in 1..Len(inner) : inner[j].k = "cdo" /\ ~inner[j].e
    THEN <<open_tag>> \o inner \o <<close_tag>>
    ELSE <<open_tag, CdataOpen>> \o inner \o <<CdataClose, close_tag>>

\* pattern.sub on (<link>)(.*?&.*?)(</link>) with DOTALL: from the leftmost
\* <link>, lazily to the first "&" after it and on to the first </link> after
\* that, whatever lies in between; then on from the end of the match
RECURSIVE LinkPatternSub(_, _)
LinkPatternSub(toks, i) ==
    IF i > Len(toks) THEN <<>>
    ELSE IF ~IsLinkOpen(toks[i]) THEN <<toks[i]>> \o LinkPatternSub(toks, i + 1)
    ELSE LET amp == Least({j \in (i + 1)..Len(toks) : HasAmp(toks[j])})
             end == IF amp = 0 THEN 0
                    ELSE Least({j \in (amp + 1)..Len(toks) : IsLinkClose(toks[j])})
         IN IF end = 0 THEN <<toks[i]>> \o LinkPatternSub(toks, i + 1)
            ELSE WrapLinkCdata(toks[i], SubSeq(toks, i + 1, end - 1), toks[end])
                 \o LinkPatternSub(toks, end + 1)

\* the except branch: the text with its links wrapped is parsed
ParseRepaired(episode) ==
    Parse(LinkPatternSub(episode, 1)) @@ [repaired |-> TRUE]

\* the try statement, given what the normal parse made of the file
EpisodeTree(first, episode) ==
    IF first.ok THEN first @@ [repaired |-> FALSE] ELSE ParseRepaired(episode)

\* try a normal parse first; on ParseError parse the repaired text
LoadEpisode(episode) == EpisodeTree(Parse(episode), episode)

\* --------------------------------------------------------- item reconciler

\* a variant without the special case of a root that is an item
NewItemsBelowRoot(episode_root) == FindAllDeep(episode_root, "item")

\* findall(".//item"), with the root prepended when the root is an item
NewItems(episode_root) ==
    IF IsTag(episode_root, "item")
    THEN <<episode_root>> \o FindAllDeep(episode_root, "item")
    ELSE FindAllDeep(episode_root, "item")

\* the GUIDs and links of the existing items, leaving out the empty ones
ExistingGuids(existing_items) ==
    {ChildText(existing_items[i], "guid") : i \in 1..Len(existing_items)} \ {<<>>}
ExistingLinks(existing_items) ==
    {ChildText(existing_items[i], "link") : i \in 1..Len(existing_items)} \ {<<>>}

\* a variant of the round that records only the identity key of a kept item:
\* its GUID, or its link when it has no GUID
DedupStepKeyOnly(acc, item) ==
    LET guid == ChildText(item, "guid")
        link == ChildText(item, "link")
        is_duplicate ==
            IF guid # <<>> THEN guid \in acc.existing_guids
            ELSE IF link # <<>> THEN link \in acc.existing_links
            ELSE FALSE
    IN IF is_duplicate
       THEN [acc EXCEPT !.is_duplicate = Append(@, TRUE)]
       ELSE [items_to_keep |-> Append(acc.items_to_keep, item),
             is_duplicate |-> Append(acc.is_duplicate, FALSE),
             existing_guids |-> IF guid # <<>> THEN acc.existing_guids \cup {guid}
                                ELSE acc.existing_guids,
             existing_links |-> IF guid = <<>> /\ link # <<>>
                                THEN acc.existing_links \cup {link}
                                ELSE acc.existing_links]

\* one round of the loop over new_items
DedupStep(acc, item) ==
    LET guid == ChildText(item, "guid")
        link == ChildText(item, "link")
        is_duplicate ==
            IF guid # <<>> THEN guid \in acc.existing_guids
            ELSE IF link # <<>> THEN link \in acc.existing_links
            ELSE FALSE
    IN IF is_duplicate
       THEN [acc EXCEPT !.is_duplicate = Append(@, TRUE)]
       ELSE [items_to_keep |-> Append(acc.items_to_keep, item),
             is_duplicate |-> Append(acc.is_duplicate, FALSE),
             existing_guids |-> IF guid # <<>> THEN acc.existing_guids \cup {guid}
                                ELSE acc.existing_guids,
             existing_links |-> IF link # <<>> THEN acc.existing_links \cup {link}
                                ELSE acc.existing_links]

RECURSIVE DedupFrom(_, _, _)
DedupFrom(acc, new_items, i) ==
    IF i > Len(new_items) THEN acc
    ELSE DedupFrom(DedupStep(acc, new_items[i]), new_items, i + 1)

Dedup(existing_items, new_items) ==
    DedupFrom([items_to_keep |-> <<>>, is_duplicate |-> <<>>,
               existing_guids |-> ExistingGuids(existing_items),
               existing_links |-> ExistingLinks(existing_items)], new_items, 1)

\* Element.remove(x): the first child equal to x goes
RECURSIVE RemoveFirst(_, _)
RemoveFirst(kids, x) ==
    IF kids = <<>> THEN <<>>
    ELSE IF Head(kids) = x THEN Tail(kids)
    ELSE <<Head(kids)>> \o RemoveFirst(Tail(kids), x)

RECURSIVE RemoveEach(_, _)
RemoveEach(kids, xs) ==
    IF xs = <<>> THEN kids ELSE RemoveEach(RemoveFirst(kids, Head(xs)), Tail(xs))

\* a variant that appends the existing items back before the kept new items
RebuildChannelExistingFirst(channel, existing_items, items_to_keep) ==
    [channel EXCEPT !.kids = RemoveEach(@, existing_items) \o existing_items \o items_to_keep]

\* clear the channel of its items, append the kept new items, append the
\* existing items back
RebuildChannel(channel, existing_items, items_to_keep) ==
    [channel EXCEPT !.kids = RemoveEach(@, existing_items) \o items_to_keep \o existing_items]

\* -------------------------------------------------------------- serializer

\* xml.etree.ElementTree._namespace_map before the code registers anything
DefaultNamespaceMap ==
    { <<"xml", "http://www.w3.org/XML/1998/namespace">>,
      <<"html", "http://www.w3.org/1999/xhtml">>,
      <<"rdf", "http://www.w3.org/1999/02/22-rdf-syntax-ns#">>,
      <<"wsdl", "http://schemas.xmlsoap.org/wsdl/">>,
      <<"xs", "http://www.w3.org/2001/XMLSchema">>,
      <<"xsi", "http://www.w3.org/2001/XMLSchema-instance">>,
      <<"dc", "http://purl.org/dc/elements/1.1/">> }

\* "ns%d" % k
GeneratedPrefix(k) == <<"ns0", "ns1", "ns2", "ns3", "ns4", "ns5">>[k + 1]

\* the namespace URIs of the qualified tags, in document order
RECURSIVE TagUris(_), TagUrisIn(_, _)
TagUrisIn(kids, i) ==
    IF i > Len(kids) THEN <<>> ELSE TagUris(kids[i]) \o TagUrisIn(kids, i + 1)
TagUris(el) ==
    (IF el.tag.ns # "" THEN <<el.tag.ns>> ELSE <<>>) \o TagUrisIn(el.kids, 1)

\* ET.tostring gives each namespace it meets the registered prefix of its URI,
\* or a generated one numbered by the namespaces met so far
RECURSIVE AssignPrefixes(_, _, _)
AssignPrefixes(namespaces, registry, uris) ==
    IF uris = <<>> THEN namespaces
    ELSE LET uri == Head(uris)
             reg == {r \in registry : r[2] = uri}
             prefix == IF reg # {} THEN (CHOOSE r \in reg : TRUE)[1]
                       ELSE GeneratedPrefix(Cardinality(namespaces))
         IN IF \E b \in namespaces : b[2] = uri
            THEN AssignPrefixes(namespaces, registry, Tail(uris))
            ELSE AssignPrefixes(namespaces \cup {<<prefix, uri>>}, registry, Tail(uris))

PrefixFor(namespaces, uri) ==
    IF uri = "" THEN "" ELSE (CHOOSE b \in namespaces : b[2] = uri)[1]

\* a DOM node of minidom: an element, a text node or a CDATA section
QName(p, n) == [p |-> p, n |-> n]
DomText(data) ==
    [type |-> "text", tagName |-> QName("", "#text"), prefix |-> "", attrs |-> {},
     data |-> data, childNodes |-> <<>>]
DomCdata(data) ==
    [type |-> "cdata", tagName |-> QName("", "#cdata-section"), prefix |-> "",
     attrs |-> {}, data |-> data, childNodes |-> <<>>]

\* minidom.parseString(ET.tostring(rss)): every element under the prefix
\* assigned to its namespace, the declarations on the root, text and tails as
\* text nodes
RECURSIVE ToDom(_, _, _), ToDomIn(_, _, _)
ToDomIn(kids, namespaces, i) ==
    IF i > Len(kids) THEN <<>>
    ELSE <<ToDom(kids[i], namespaces, FALSE)>>
         \o (IF kids[i].tail # <<>> THEN <<DomText(kids[i].tail)>> ELSE <<>>)
         \o ToDomIn(kids, namespaces, i + 1)
ToDom(el, namespaces, isRoot) ==
    [type |-> "element",
     tagName |-> QName(PrefixFor(namespaces, el.tag.ns), el.tag.n),
     prefix |-> PrefixFor(namespaces, el.tag.ns),
     attrs |-> el.attrib \cup
               (IF isRoot THEN {Attr("xmlns", b[1], b[2]) : b \in namespaces} ELSE {}),
     data |-> <<>>,
     childNodes |-> (IF el.text # <<>> THEN <<DomText(el.text)>> ELSE <<>>)
                    \o ToDomIn(el.kids, namespaces, 1)]

\* fix_namespace_prefixes: the prefix of a node whose tagName has one is set
\* to it
RECURSIVE fix_namespace_prefixes(_)
fix_namespace_prefixes(node) ==
    [node EXCEPT
       !.prefix = IF node.type = "element" /\ node.tagName.p # "" /\ @ # node.tagName.p
                  THEN node.tagName.p ELSE @,
       !.childNodes = [i \in 1..Len(@) |-> fix_namespace_prefixes(@[i])]]

\* the data of the text and CDATA children, joined; every child is removed and
\* one CDATA section takes their place
ReplaceByCdata(link_node) ==
    LET parts == SelectSeq(link_node.childNodes, LAMBDA c : c.type \in {"text", "cdata"})
    IN [link_node EXCEPT
          !.childNodes = <<DomCdata(Concat([i \in 1..Len(parts) |-> parts[i].data]))>>]

\* every element named link whose parent is named item; the loop body does
\* the replacement twice
RECURSIVE LinksToCdata(_, _)
LinksToCdata(node, parentName) ==
    IF node.type # "element" THEN node
    ELSE IF node.tagName = QName("", "link") /\ parentName = QName("", "item")
    THEN ReplaceByCdata(ReplaceByCdata(node))
    ELSE [node EXCEPT !.childNodes = [i \in 1..Len(@) |-> LinksToCdata(@[i], node.tagName)]]

\* minidom's _write_data: & < > leave as entity references
EscapeData(data) ==
    [i \in 1..Len(data) |->
        IF data[i].k = "char" /\ data[i].n # "&" THEN data[i] ELSE Escaped(data[i])]

Indent(depth) == IF depth = 0 THEN <<>> ELSE <<Ch(Indentations[depth])>>

\* a CDATA section that holds "]]>" cannot be written (ValueError)
RECURSIVE Writable(_)
Writable(node) ==
    /\ node.type = "cdata" =>
         \A i \in 1..Len(node.data) : ~(node.data[i].k = "cdc" /\ ~node.data[i].e)
    /\ \A i \in 1..Len(node.childNodes) : Writable(node.childNodes[i])

\* Node.writexml(writer, indent, addindent="  ", newl="\n")
RECURSIVE WriteXml(_, _), WriteXmlIn(_, _, _)
WriteXmlIn(nodes, depth, i) ==
    IF i > Len(nodes) THEN <<>>
    ELSE WriteXml(nodes[i], depth) \o WriteXmlIn(nodes, depth, i + 1)
WriteXml(node, depth) ==
    IF node.type = "text" THEN Indent(depth) \o EscapeData(node.data) \o <<Ch(NL)>>
    ELSE IF node.type = "cdata" THEN <<CdataOpen>> \o node.data \o <<CdataClose>>
    ELSE IF node.childNodes = <<>>
    THEN Indent(depth) \o <<EmptyTag(node.tagName.p, node.tagName.n, node.attrs), Ch(NL)>>
    ELSE Indent(depth) \o <<Open(node.tagName.p, node.tagName.n, node.attrs)>>
         \o (IF Len(node.childNodes) = 1 /\ node.childNodes[1].type = "text"
             THEN EscapeData(node.childNodes[1].data)
             ELSE IF Len(node.childNodes) = 1 /\ node.childNodes[1].type = "cdata"
             THEN WriteXml(node.childNodes[1], 0)
             ELSE <<Ch(NL)>> \o WriteXmlIn(node.childNodes, depth + 1, 1) \o Indent(depth))
         \o <<Close(node.tagName.p, node.tagName.n), Ch(NL)>>

\* Document.toprettyxml(indent="  ", encoding="utf-8")
ToPrettyXml(document) == <<XmlDecl, Ch(NL)>> \o WriteXml(document, 0)

IsLineBreak(t) == t.k = "char" /\ ~t.e /\ t.n = NL

\* bytes.splitlines(): the lines without their line breaks; a line starts at
\* the first byte and after every line break, and ends before the next one
SplitLines(toks) ==
    LET n == Len(toks)
        starts == SelectSeq([i \in 1..n |-> i],
                            LAMBDA i : i = 1 \/ IsLineBreak(toks[i - 1]))
        end(s) == LET b == Least({j \in s..n : IsLineBreak(toks[j])})
                  IN IF b = 0 THEN n ELSE b - 1
    IN [k \in 1..Len(starts) |-> SubSeq(toks, starts[k], end(starts[k]))]

\* line.strip() is empty
IsBlankLine(line) == \A i \in 1..Len(line) : IsWhitespace(line[i])

RECURSIVE JoinLines(_)
JoinLines(lines) ==
    IF lines = <<>> THEN <<>>
    ELSE IF Len(lines) = 1 THEN lines[1]
    ELSE lines[1] \o <<Ch(NL)>> \o JoinLines(Tail(lines))

\* b"\n".join of the lines that are not blank
Compact(pretty) ==
    JoinLines(SelectSeq(SplitLines(pretty), LAMBDA l : ~IsBlankLine(l)))

\* the CDATA pass over the document, then the pretty print and the filter
Written(linked) ==
    IF Writable(linked)
    THEN [ok |-> TRUE, bytes |-> Compact(ToPrettyXml(linked))]
    ELSE [ok |-> FALSE, bytes |-> <<>>]

Serialize(rss, registry) ==
    Written(LinksToCdata(
        fix_namespace_prefixes(
            ToDom(rss, AssignPrefixes({}, registry, TagUris(rss)), TRUE)),
        QName("", "#document")))

\* ------------------------------------------------- merge_episode_into_feed

NoFile == [exists |-> FALSE, data |-> <<>>]
File(data) == [exists |-> TRUE, data |-> data]

\* The locals of a call of merge_episode_into_feed, filled in as the call
\* advances.  outcome is "ok" until an exception is raised and is then its
\* name; stage is the statement group the call has reached; c is the index of
\* the channel among the children of rss; bytes is the value returned.
Frame ==
    [outcome |-> "ok", stage |-> "start", rss |-> NoElement, registry |-> {}, c |-> 0,
     repaired |-> FALSE, new_items |-> <<>>, existing_items |-> <<>>,
     items_to_keep |-> <<>>, is_duplicate |-> <<>>, channel |-> NoElement,
     bytes |-> <<>>]

Raise(m, error) == [m EXCEPT !.outcome = error]
Channel(m) == m.rss.kids[m.c]

\* the existing feed as parsed, its root namespaces registered
ExistingFeed(m, feed) ==
    IF ~feed.ok THEN Raise(m, "ParseError")
    ELSE [m EXCEPT !.rss = feed.root,
                   !.registry = RegisterAll(m.registry, RootNamespaces(feed.root)),
                   !.c = Find(feed.root, "channel")]

\* the built-in namespaces are registered; the feed is the skeleton when the
\* file does not exist, and the parsed file otherwise
LoadFeed(m0, feed_file) ==
    LET m == [m0 EXCEPT !.stage = "feed",
                        !.registry = RegisterAll(DefaultNamespaceMap, NAMESPACES)]
    IN IF feed_file.exists THEN ExistingFeed(m, Parse(feed_file.data))
       ELSE [m EXCEPT !.rss = NewFeed, !.c = Find(NewFeed, "channel")]

\* channel.find on a channel that is None raises AttributeError
StampFeed(m, now) ==
    IF m.outcome # "ok" THEN m
    ELSE IF m.c = 0 THEN Raise([m EXCEPT !.stage = "channel"], "AttributeError")
    ELSE [m EXCEPT !.stage = "channel", !.rss.kids[m.c] = UpdateBuildDate(@, now)]

ReadEpisode(m, episode) ==
    IF m.outcome # "ok" THEN m
    ELSE IF ~episode.ok THEN Raise([m EXCEPT !.stage = "episode"], "ParseError")
    ELSE [m EXCEPT !.stage = "episode", !.repaired = episode.repaired,
                   !.new_items = NewItems(episode.root),
                   !.existing_items = FindAll(Channel(m), "item")]

Kept(m, kept) ==
    [m EXCEPT !.items_to_keep = kept.items_to_keep, !.is_duplicate = kept.is_duplicate]

Reconcile(m) ==
    IF m.outcome # "ok" THEN m
    ELSE Kept([m EXCEPT !.stage = "reconcile"], Dedup(m.existing_items, m.new_items))

Rebuild(m) ==
    IF m.outcome # "ok" THEN m
    ELSE [m EXCEPT !.stage = "rebuild",
                   !.rss.kids[m.c] = RebuildChannel(@, m.existing_items, m.items_to_keep)]

\* toprettyxml raises ValueError on a CDATA section it cannot write
Return(m, out) ==
    IF ~out.ok THEN Raise(m, "ValueError")
    ELSE [m EXCEPT !.stage = "done", !.bytes = out.bytes, !.channel = Channel(m)]

Output(m) ==
    IF m.outcome # "ok" THEN m
    ELSE Return([m EXCEPT !.stage = "serialize"], Serialize(m.rss, m.registry))

\* the call: what it returned or raised, with its locals
merge_episode_into_feed(feed_file, episode_file, now) ==
    Output(Rebuild(Reconcile(
        ReadEpisode(StampFeed(LoadFeed(Frame, feed_file), now),
                    LoadEpisode(episode_file)))))

\* ------------------------------------------------------------------ inputs

Child(name, text) == <<Open("", name, {})>> \o text \o <<Close("", name)>>
Item(children) == <<Open("", "item", {})>> \o children \o <<Close("", "item")>>
RssOpen(a) == Open("", "rss", {Attr("", "version", "2.0")} \cup a)
\* an episode document: a declaration and a wrapper around the items
Wrapped(a, body) == <<XmlDecl, RssOpen(a)>> \o body \o <<Close("", "rss")>>

G1 == <<Ch("test-episode-1")>>
G2 == <<Ch("test-episode-2")>>
GBlank == <<Ch("episode"), Ch(NL), Ch(NL), Ch("3")>>
L1 == <<Ch("https://example.com/test")>>
L2 == <<Ch("https://example.com/two")>>
LAmp == <<Ch("https://example.com/a"), Ch("&"), Ch("b=1")>>
LBlank == <<Ch("https://example.com/x"), Ch(NL), Ch(NL), Ch("y")>>
TitleAmp == Child("title", <<Ch("A "), Ch("&"), Ch(" B")>>)
PodcastNs == Attr("xmlns", "podcast", "https://podcastindex.org/namespace/1.0")

\* the episode file of test_episode_xml_parsing
TestEpisode ==
    <<XmlDecl, Ch(NL), RssOpen({}), Ch(NL), Ch(Indentations[2])>>
    \o Item(<<Ch(NL), Ch(Indentations[4])>>
            \o Child("title", <<Ch("TechNewsDaily - Test Episode")>>)
            \o <<Ch(NL), Ch(Indentations[4])>> \o Child("link", L1)
            \o <<Ch(NL), Ch(Indentations[4])>>
            \o Child("description", <<Ch("Test episode description")>>)
            \o <<Ch(NL), Ch(Indentations[4])>> \o Child("pubDate", <<Ch("2025-11-06")>>)
            \o <<Ch(NL), Ch(Indentations[4])>> \o Child("guid", G1)
            \o <<Ch(NL), Ch(Indentations[2])>>)
    \o <<Ch(NL), Close("", "rss"), Ch(NL)>>

\* the episode file of test_invalid_episode_xml: a bare item, no declaration
TestInvalidEpisode ==
    Item(<<Ch(NL), Ch(Indentations[3])>>
         \o Child("title", <<Ch("TechNewsDaily - Invalid Episode")>>)
         \o <<Ch(NL), Ch(Indentations[3])>> \o Child("link", L1)
         \o <<Ch(NL), Ch(Indentations[3])>>
         \o Child("description", <<Ch("Invalid episode description")>>)
         \o <<Ch(NL), Ch(Indentations[3])>> \o Child("pubDate", <<Ch("2025-11-06")>>)
         \o <<Ch(NL), Ch(Indentations[3])>>
         \o Child("guid", <<Ch("test-episode-invalid")>>) \o <<Ch(NL)>>)
    \o <<Ch(NL)>>

\* the feed file of test_episode_xml_parsing
TestFeed ==
    <<XmlDecl, Ch(NL), RssOpen({}), Ch(NL), Ch(Indentations[2]),
      Open("", "channel", {}), Ch(NL), Ch(Indentations[4])>>
    \o Child("title", SITE_TITLE) \o <<Ch(NL), Ch(Indentations[4])>>
    \o Child("link", SITE_LINK) \o <<Ch(NL), Ch(Indentations[4])>>
    \o Child("description", SITE_DESC) \o <<Ch(NL), Ch(Indentations[4])>>
    \o Child("language", <<Ch("en-us")>>) \o <<Ch(NL), Ch(Indentations[2])>>
    \o <<Close("", "channel"), Ch(NL), Close("", "rss"), Ch(NL)>>

\* a feed written by hand: a namespace of its own, one item, no build date
HandFeed ==
    <<XmlDecl, RssOpen({PodcastNs}), Open("", "channel", {})>>
    \o Child("title", SITE_TITLE)
    \o <<Open("podcast", "locked", {}), Ch("yes"), Close("podcast", "locked")>>
    \o Item(Child("guid", G1) \o Child("link", L1))
    \o <<Close("", "channel"), Close("", "rss")>>

\* not well-formed: the channel and the root are never closed
MalformedFeed == <<XmlDecl, RssOpen({}), Open("", "channel", {})>> \o Child("title", SITE_TITLE)

\* well-formed, without a channel
NoChannelFeed == <<XmlDecl, RssOpen({})>> \o Child("title", SITE_TITLE) \o <<Close("", "rss")>>

InitialFeeds ==
    {NoFile, File(TestFeed), File(HandFeed), File(MalformedFeed), File(NoChannelFeed)}

\* episode documents of one item under a wrapper
OneItemEpisodes ==
    { TestEpisode,
      Wrapped({}, Item(Child("guid", G1) \o Child("link", L2)
                       \o Child("title", <<Ch("Q"), Escaped(Ch("&")), Ch("A")>>))),
      Wrapped({}, Item(Child("guid", <<>>) \o Child("link", L1))),
      Wrapped({}, Item(Child("guid", GBlank))),
      Wrapped({}, Item(Child("link", LBlank))),
      Wrapped({PodcastNs},
              Item(Child("guid", G2) \o <<EmptyTag("podcast", "season", {})>>)) }

\* episode documents of two items
TwoItemEpisodes ==
    { Wrapped({}, Item(Child("guid", G1) \o Child("link", L1))
                  \o Item(Child("guid", G1) \o Child("link", L2))),
      Wrapped({}, Item(Child("guid", G1) \o Child("link", L1))
                  \o Item(Child("link", L1))),
      Wrapped({}, Item(Child("title", <<Ch("no identity")>>))
                  \o Item(Child("title", <<Ch("no identity")>>))),
      Wrapped({}, Item(Child("link", L2)) \o Item(Child("guid", G2) \o Child("link", L2))) }

\* episode documents that do not parse as they are
MalformedEpisodes ==
    { Wrapped({}, Item(Child("link", LAmp) \o Child("guid", G2))),
      Wrapped({}, Item(Child("link", L1) \o TitleAmp \o Child("link", L2)
                       \o Child("guid", G2))),
      Wrapped({}, Item(Child("link", L1) \o TitleAmp \o Child("guid", G1))),
      <<XmlDecl, RssOpen({})>> \o Item(Child("guid", G1)) }

\* episode documents whose root is the item
BareItemEpisodes ==
    { TestInvalidEpisode,
      Item(Child("guid", G2) \o Item(Child("guid", G1) \o Child("link", L1))),
      Item(Child("link", LAmp)) }

EpisodeFiles == OneItemEpisodes \cup TwoItemEpisodes \cup MalformedEpisodes \cup BareItemEpisodes

\* format_datetime(datetime.now(timezone.utc)) at successive readings
BuildDates ==
    << "Thu, 05 Nov 2026 10:00:01 +0000", "Thu, 05 Nov 2026 10:00:02 +0000",
       "Thu, 05 Nov 2026 10:00:03 +0000", "Thu, 05 Nov 2026 10:00:04 +0000",
       "Thu, 05 Nov 2026 10:00:05 +0000" >>
BuildDate(k) == <<Ch(BuildDates[k])>>

\* the merges a behaviour may hold
MaxMerges == 2

\* ------------------------------------------------------------------- state

VARIABLES
    feedFile,   \* docs/feed.xml
    origin,     \* the feed file before the first run
    clock,      \* the readings of the clock so far
    last        \* the latest run of main: its inputs and what the merge returned

vars == <<feedFile, origin, clock, last>>

NotRun == [call |-> "none", episode_file |-> <<>>, before |-> NoFile,
           now |-> <<>>, merge |-> Frame]

Init ==
    /\ feedFile \in InitialFeeds
    /\ origin = feedFile
    /\ clock = 0
    /\ last = NotRun

\* main when get_latest_episode_file finds no episode file: it prints and
\* returns
MainNoEpisode ==
    /\ last.call # "no_episode"
    /\ last' = [NotRun EXCEPT !.call = "no_episode"]
    /\ UNCHANGED <<feedFile, origin, clock>>

\* a variant of main that opens the feed file for writing before it merges:
\* whatever the merge returned, or nothing, is what the file holds afterwards
RunMainWriteFirst(episode_file, now, merge) ==
    /\ feedFile' = File(merge.bytes)
    /\ clock' = IF merge.stage = "feed" \/ (merge.stage = "channel" /\ merge.outcome # "ok")
                THEN clock ELSE clock + 1
    /\ last' = [call |-> "merge", episode_file |-> episode_file, before |-> feedFile,
                now |-> now, merge |-> merge]
    /\ UNCHANGED origin

\* main with episode_file the latest episode file: the merge, and only when
\* it returned, the write of its bytes over the feed file
RunMain(episode_file, now, merge) ==
    /\ feedFile' = IF merge.outcome = "ok" THEN File(merge.bytes) ELSE feedFile
    /\ clock' = IF merge.stage = "feed" \/ (merge.stage = "channel" /\ merge.outcome # "ok")
                THEN clock ELSE clock + 1
    /\ last' = [call |-> "merge", episode_file |-> episode_file, before |-> feedFile,
                now |-> now, merge |-> merge]
    /\ UNCHANGED origin

Main(episode_file) ==
    /\ clock < MaxMerges
    /\ RunMain(episode_file, BuildDate(clock + 1),
               merge_episode_into_feed(feedFile, episode_file, BuildDate(clock + 1)))

Next ==
    \/ MainNoEpisode
    \/ \E episode_file \in EpisodeFiles : Main(episode_file)

Spec == Init /\ [][Next]_vars

\* -------------------------------------------------------------- properties

\* the latest run of main merged and wrote the feed
Merged == last.call = "merge" /\ last.merge.outcome = "ok"

\* the latest run of main loaded the feed, found its channel and went on to
\* the episode file
EpisodeWasRead == last.call = "merge" /\ last.merge.stage \notin {"start", "feed", "channel"}

\* the items of the channel of a parsed document, none when there is no channel
ItemsIn(parsed) ==
    IF parsed.ok /\ Find(parsed.root, "channel") # 0
    THEN FindAll(parsed.root.kids[Find(parsed.root, "channel")], "item")
    ELSE <<>>

\* the channel items a feed file holds
ItemsOfFile(file) == IF file.exists THEN ItemsIn(Parse(file.data)) ELSE <<>>

Guid(item) == ChildText(item, "guid")
Link(item) == ChildText(item, "link")

\* no two items share a non-empty GUID
UniqueGuids(items) ==
    \A i, j \in 1..Len(items) : (i # j /\ Guid(items[i]) # <<>>) => Guid(items[i]) # Guid(items[j])

\* C1: starting from a feed in which no two items share a non-empty GUID
\* (the absent feed included), after any sequence of runs every non-empty GUID
\* of the feed file is on exactly one channel item.
C1_GuidOnOneItem ==
    UniqueGuids(ItemsOfFile(origin)) => UniqueGuids(ItemsOfFile(feedFile))

\* C2: after a merge the items of the channel are the kept candidates, in the
\* order of the episode document, followed by the items the feed file held
\* before the merge, in the order it held them; the file written holds as
\* many items.
C2_KeptThenExisting ==
    Merged =>
        LET m == last.merge
            kept == SelectSeq([i \in 1..Len(m.new_items) |-> <<i, m.new_items[i]>>],
                              LAMBDA x : ~m.is_duplicate[x[1]])
            before == ItemsOfFile(last.before)
        IN /\ FindAll(m.channel, "item") = m.items_to_keep \o before
           /\ m.items_to_keep = [k \in 1..Len(kept) |-> kept[k][2]]
           /\ Len(ItemsOfFile(feedFile)) = Len(m.items_to_keep) + Len(before)

\* a merge that kept a candidate in front of two different existing items
C2_Witness ==
    /\ Merged
    /\ Len(last.merge.items_to_keep) >= 1
    /\ Len(ItemsOfFile(last.before)) >= 2
    /\ ItemsOfFile(last.before)[1] # ItemsOfFile(last.before)[2]
    /\ FindAll(last.merge.channel, "item") = last.merge.items_to_keep \o ItemsOfFile(last.before)

\* the candidates before the i-th that were kept
KeptBefore(m, i) == {j \in 1..(i - 1) : ~m.is_duplicate[j]}

\* the GUIDs and the links the i-th candidate is compared with: those of the
\* existing items and those of every candidate kept before it
GuidsSeen(m, i) ==
    ExistingGuids(m.existing_items) \cup ({Guid(m.new_items[j]) : j \in KeptBefore(m, i)} \ {<<>>})
LinksSeen(m, i) ==
    ExistingLinks(m.existing_items) \cup ({Link(m.new_items[j]) : j \in KeptBefore(m, i)} \ {<<>>})

\* the same, a kept candidate adding its identity key only: its GUID when it
\* has one, its link otherwise
GuidKeysSeen(m, i) == GuidsSeen(m, i)
LinkKeysSeen(m, i) ==
    ExistingLinks(m.existing_items)
    \cup ({Link(m.new_items[j]) : j \in {k \in KeptBefore(m, i) : Guid(m.new_items[k]) = <<>>}}
          \ {<<>>})

\* the i-th candidate's identity key is among the GUIDs (a GUID key) or the
\* links (a link key) given
KeyIn(m, i, guids, links) ==
    IF Guid(m.new_items[i]) # <<>> THEN Guid(m.new_items[i]) \in guids
    ELSE IF Link(m.new_items[i]) # <<>> THEN Link(m.new_items[i]) \in links
    ELSE FALSE

\* C3 (as stated): a candidate is dropped if and only if its identity key is
\* among the GUIDs and links of the existing items plus the keys of the
\* candidates kept before it.
C3_DroppedIffKeySeen ==
    Merged =>
        \A i \in 1..Len(last.merge.new_items) :
            last.merge.is_duplicate[i]
                <=> KeyIn(last.merge, i, GuidKeysSeen(last.merge, i), LinkKeysSeen(last.merge, i))

\* C3 (amended): a candidate is dropped if and only if its GUID, when not
\* empty, is among the GUIDs, or else its link, when not empty, is among the
\* links, of the existing items and of every candidate kept before it, each
\* kept candidate counting with both its GUID and its link; a candidate with
\* neither is always kept.
C3_DroppedIffGuidOrLinkSeen ==
    Merged =>
        \A i \in 1..Len(last.merge.new_items) :
            /\ last.merge.is_duplicate[i]
                 <=> KeyIn(last.merge, i, GuidsSeen(last.merge, i), LinksSeen(last.merge, i))
            /\ (Guid(last.merge.new_items[i]) = <<>> /\ Link(last.merge.new_items[i]) = <<>>)
                 => ~last.merge.is_duplicate[i]

\* a candidate without a GUID dropped for the link of a candidate kept before
\* it that has a GUID, no existing item having that link
C3_Witness ==
    /\ Merged
    /\ \E i \in 1..Len(last.merge.new_items) :
         /\ last.merge.is_duplicate[i]
         /\ Guid(last.merge.new_items[i]) = <<>>
         /\ Link(last.merge.new_items[i]) \notin ExistingLinks(last.merge.existing_items)
         /\ \E j \in KeptBefore(last.merge, i) :
              /\ Guid(last.merge.new_items[j]) # <<>>
              /\ Link(last.merge.new_items[j]) = Link(last.merge.new_items[i])

\* the episode file parses, as it is or repaired, to a root that is an item
RootIsItem(episode_file) ==
    LoadEpisode(episode_file).ok /\ IsTag(LoadEpisode(episode_file).root, "item")

\* the same document with its root element put inside a wrapper element
InWrapper(episode_file) ==
    LET first == Least({i \in 1..Len(episode_file) : episode_file[i].k = "open"})
        closes == {i \in 1..Len(episode_file) : episode_file[i].k = "close"}
        final == CHOOSE i \in closes : \A j \in closes : j <= i
    IN SubSeq(episode_file, 1, first - 1) \o <<Open("", "wrapper", {})>>
       \o SubSeq(episode_file, first, final) \o <<Close("", "wrapper")>>
       \o SubSeq(episode_file, final + 1, Len(episode_file))

\* what the merge of the wrapped document into the same feed returns
SameAsMerge(m, w) ==
    /\ w.outcome = m.outcome
    /\ w.new_items = m.new_items
    /\ w.items_to_keep = m.items_to_keep
    /\ FindAll(w.channel, "item") = FindAll(m.channel, "item")
    /\ w.bytes = m.bytes

C5_BareItemRaises ==
    (last.call = "merge" /\ ~last.before.exists /\ last.episode_file = TestInvalidEpisode)
        => (last.merge.outcome = "ParseError" /\ last.merge.bytes = <<>>)

\* the namespace bindings a document declares, on any of its tags
Bindings(toks) == UNION {Declared(toks[i].a) : i \in 1..Len(toks)}
\* those its root declares
RootBindings(toks) ==
    LET tags == {i \in 1..Len(toks) : toks[i].k \in {"open", "empty"}}
    IN IF tags = {} THEN {} ELSE Declared(toks[CHOOSE i \in tags : \A j \in tags : i <= j].a)
\* those under whose prefix it has an element
UsedBindings(toks) ==
    {b \in Bindings(toks) :
        \E i \in 1..Len(toks) : toks[i].k \in {"open", "empty"} /\ toks[i].p = b[1]}

\* C6: every namespace prefix the feed's root declares, and every one an
\* element of the feed or of the merged episode is under, is declared in the
\* output with the same prefix for the same URI.
C6_PrefixesKept ==
    (Merged /\ \A i \in 1..Len(last.merge.is_duplicate) : ~last.merge.is_duplicate[i]) =>
        (RootBindings(last.before.data) \cup UsedBindings(last.before.data)
         \cup UsedBindings(last.episode_file)) \subseteq Bindings(feedFile.data)

\* the i-th token lies inside a CDATA section
InCdata(toks, i) ==
    \E j \in 1..(i - 1) :
        toks[j].k = "cdo" /\ \A k \in (j + 1)..(i - 1) : toks[k].k # "cdc"

\* the i-th token is the text, or part of the text, of one link element:
\* nothing but characters lies between it and the tags of the link
InLinkText(toks, i) ==
    \E a \in 1..(i - 1), b \in (i + 1)..Len(toks) :
        /\ IsLinkOpen(toks[a])
        /\ IsLinkClose(toks[b])
        /\ \A j \in (a + 1)..(b - 1) : toks[j].k = "char"

\* the document has an unescaped "&" that is not in the text of a link
AmpOutsideLink(toks) ==
    \E i \in 1..Len(toks) :
        toks[i].k = "char" /\ toks[i].n = "&" /\ ~toks[i].e
        /\ ~InCdata(toks, i) /\ ~InLinkText(toks, i)

\* C7: an episode document with an unescaped "&" outside the text of a link
\* element is not made parseable by the repair: the merge raises ParseError.
C7_OtherFailuresPropagate ==
    (EpisodeWasRead /\ AmpOutsideLink(last.episode_file))
        => last.merge.outcome = "ParseError"

\* the feed file the run found is there and is not well-formed, or has no
\* channel; the episode file does not parse even repaired
FeedMalformed(file, parsed) == file.exists /\ ~parsed.ok
FeedWithoutChannel(file, parsed) ==
    file.exists /\ parsed.ok /\ Find(parsed.root, "channel") = 0
EpisodeUnrepairable(episode_file) == ~LoadEpisode(episode_file).ok

\* C8: a run whose feed file is malformed or has no channel, or whose episode
\* file is unrepairably malformed, raises, returns no bytes and leaves the
\* feed file as it was; the feed file is written only with the bytes of a
\* merge that returned.
C8_AllOrNothing ==
    last.call = "merge" =>
        LET parsed == Parse(last.before.data)
        IN /\ FeedMalformed(last.before, parsed) => last.merge.outcome = "ParseError"
           /\ FeedWithoutChannel(last.before, parsed) => last.merge.outcome = "AttributeError"
           /\ (~FeedMalformed(last.before, parsed) /\ ~FeedWithoutChannel(last.before, parsed)
               /\ EpisodeUnrepairable(last.episode_file)) => last.merge.outcome = "ParseError"
           /\ last.merge.outcome # "ok" => (last.merge.bytes = <<>> /\ feedFile = last.before)
           /\ last.merge.outcome = "ok" => feedFile = File(last.merge.bytes)

\* a run that found a feed with an item in it and an episode file beyond
\* repair: it raised, and the feed file is as it was
C8_Witness ==
    /\ last.call = "merge"
    /\ ItemsOfFile(last.before) # <<>>
    /\ EpisodeUnrepairable(last.episode_file)
    /\ last.merge.outcome = "ParseError"
    /\ feedFile = last.before

\* the name of the element the i-th token is a child of, "" at the top: the
\* nearest start tag before it with as many start tags as end tags in between,
\* CDATA sections left aside
ParentName(toks, i) ==
    LET tags(k, a, b) == {j \in a..b : toks[j].k = k /\ ~InCdata(toks, j)}
        above == {j \in tags("open", 1, i - 1) :
                     Cardinality(tags("open", j + 1, i - 1))
                         = Cardinality(tags("close", j + 1, i - 1))}
    IN IF above = {} THEN "" ELSE toks[CHOOSE j \in above : \A k \in above : k <= j].n

\* C9: the bytes written carry the link of every item, and of no other
\* element, as a CDATA section, and the text of each item's link in them is,
\* character for character, the text the link had in the merged tree: the
\* candidate's as parsed from the episode, the existing item's as parsed from
\* the feed.
C9_LinkTextExact ==
    Merged =>
        LET out == feedFile.data
            written == ItemsOfFile(feedFile)
            items == FindAll(last.merge.channel, "item")
        IN /\ \A i \in 1..Len(out) :
                (IsLinkOpen(out[i]) /\ ~InCdata(out, i)) =>
                    (out[i + 1] = CdataOpen <=> ParentName(out, i) = "item")
           /\ Len(written) = Len(items)
           /\ \A k \in 1..Len(items) : Link(written[k]) = Link(items[k])

\* the channel of a parsed document that has one
ChannelIn(parsed) == parsed.root.kids[Find(parsed.root, "channel")]
ChannelOfFile(file) == ChannelIn(Parse(file.data))

\* the places of the children of an element that carry a name
Places(el, name) == {i \in 1..Len(el.kids) : IsTag(el.kids[i], name)}

\* C10: started with the feed file absent, a feed file that has been written
\* has exactly one channel, and the channel exactly one lastBuildDate, before
\* every item; after a merge that returned, its text is the time of that
\* merge, whether or not the merge kept a candidate.
C10_OneBuildDate ==
    (origin = NoFile /\ feedFile.exists) =>
        LET parsed == Parse(feedFile.data)
            channel == ChannelIn(parsed)
            dates == Places(channel, "lastBuildDate")
        IN /\ parsed.ok
           /\ Cardinality(Places(parsed.root, "channel")) = 1
           /\ Cardinality(dates) = 1
           /\ \A d \in dates :
                /\ \A i \in Places(channel, "item") : d < i
                /\ \E k \in 1..clock : channel.kids[d].text = BuildDate(k)
                /\ Merged => (channel.kids[d].text = last.now /\ last.now = BuildDate(clock))

\* a merge into a feed that began absent, every candidate dropped as a
\* duplicate: the build date written is the time of this merge, not the time
\* the feed file carried before
C10_Witness ==
    /\ origin = NoFile
    /\ Merged
    /\ last.before.exists
    /\ last.merge.new_items # <<>>
    /\ last.merge.items_to_keep = <<>>
    /\ ChildText(ChannelOfFile(feedFile), "lastBuildDate") = last.now
    /\ ChildText(ChannelOfFile(last.before), "lastBuildDate") # last.now
====
